---- MODULE Spec2Model ----
(***************************************************************************)
(* A model of the order-flow test harness of b2b-order-sync:               *)
(*   src/test_flow.py        TimingTracker, BCTestFlow.poll_b2b_order,     *)
(*                           BCTestFlow.send_to_erp, process_single_order  *)
(*   src/generate_summary.py TimingSummary                                 *)
(*                                                                         *)
(* The clock counts tenths of a second, so that the 0.4 s ERP delay and    *)
(* the whole-second poll delays are both integers.  A Python value that    *)
(* may be None is a sequence of length at most one: <<>> is None and <<v>> *)
(* is the value v.                                                         *)
(***************************************************************************)
EXTENDS Integers, Sequences, FiniteSets, TLC

\* ------------------------------------------------------------------ bounds
\* max_retries of a run is drawn from 0 .. MaxRetries (--max-retries).
MaxRetries == 3
\* retry_delay of a run is drawn from 0 .. MaxDelay seconds (--retry-delay).
MaxDelay == 1
\* An HTTP call takes 0 or 1 clock ticks while the clock is below MaxClock,
\* and 0 ticks from then on; sleeps always take their full time.
MaxClock == 1

\* A batch has 0 .. MaxOrders orders (--num-orders).
MaxOrders == 2
\* The limit of a concurrent batch is 0, 1 or MaxConcurrent (--max-concurrent).
MaxConcurrent == 2

\* A TimingTracker driven on its own gets at most MaxCalls calls.
MaxCalls == 4

\* ------------------------------------------------------- program constants
\* time.sleep(0.4) in send_to_erp, in clock ticks (tenths of a second).
ErpDelay == 4

\* ---------------------------------------------------------- optional values
None == <<>>
Some(v) == <<v>>
IsNone(x) == x = <<>>
Val(x) == x[1]

\* time.sleep(s) and timedelta.total_seconds(): seconds to clock ticks.
Seconds(s) == s * 10

\* The identifiers the commerce API may give a new order.
OrderIds == {101, 102}
\* The B2B order payloads a lookup or creation may return (response.json()).
B2BBodies == {[id |-> 7], [id |-> 8]}

\* The step vocabulary, in the order process_single_order starts the steps.
StepNames ==
    << "create_cart", "add_shipping_address", "update_shipping_option",
       "add_billing_address", "create_order", "update_order_status",
       "esl_retrieval", "erp_processing", "update_b2b_order",
       "storefront_verification" >>

NumSteps == Len(StepNames)

\* ------------------------------------------------------------ TimingTracker
\* TimingTracker.__init__
TimingTracker ==
    [steps |-> <<>>, start_time |-> None, end_time |-> None, order_id |-> None]

\* The position of step_name in the steps dict (insertion order), 0 if absent.
StepIndex(t, step_name) ==
    IF \E i \in 1..Len(t.steps) : t.steps[i].name = step_name
    THEN CHOOSE i \in 1..Len(t.steps) : t.steps[i].name = step_name
    ELSE 0

\* set_order_id as it would be if it kept nothing.
set_order_id_ignored(t, id) == t

\* TimingTracker.set_order_id
set_order_id(t, id) == [t EXCEPT !.order_id = Some(id)]

\* start_step as it would be if it rebuilt the dict: self.steps = {name: ...}.
start_step_reset(t, step_name, clk) ==
    [t EXCEPT !.steps =
        << [name |-> step_name, start |-> clk, end |-> None, duration |-> None] >>]

\* TimingTracker.start_step: self.steps[step_name] = {start: now, end: None,
\* duration: None}.  Assigning an existing key keeps its place in the dict.
start_step(t, step_name, clk) ==
    LET rec == [name |-> step_name, start |-> clk, end |-> None, duration |-> None]
        i == StepIndex(t, step_name)
    IN  IF i = 0
        THEN [t EXCEPT !.steps = Append(@, rec)]
        ELSE [t EXCEPT !.steps[i] = rec]

\* end_step as it would be if it recorded nothing.
end_step_unrecorded(t, step_name, clk) == t

\* TimingTracker.end_step: only for a step that was started.
end_step(t, step_name, clk) ==
    LET i == StepIndex(t, step_name)
    IN  IF i = 0
        THEN t
        ELSE [t EXCEPT !.steps[i].end = Some(clk),
                       !.steps[i].duration = Some(clk - t.steps[i].start)]

\* TimingTracker.start_flow
start_flow(t, clk) == [t EXCEPT !.start_time = Some(clk)]

\* end_flow as it would be if it recorded nothing.
end_flow_unrecorded(t, clk) == t

\* TimingTracker.end_flow: records the end instant and nothing else.
end_flow(t, clk) == [t EXCEPT !.end_time = Some(clk)]

\* datetime.isoformat(): the instant as text.
isoformat(clk) == [iso |-> clk]

\* TimingTracker.generate_summary: the empty dict unless both flow instants
\* are set.
generate_summary(t) ==
    IF IsNone(t.start_time) \/ IsNone(t.end_time)
    THEN <<>>
    ELSE [flow_start |-> isoformat(Val(t.start_time)),
          flow_end |-> isoformat(Val(t.end_time)),
          total_duration_seconds |-> Val(t.end_time) - Val(t.start_time),
          order_id |-> t.order_id,
          steps |-> [i \in 1..Len(t.steps) |->
                       [name |-> t.steps[i].name,
                        start |-> isoformat(t.steps[i].start),
                        end |-> IF IsNone(t.steps[i].end) THEN None
                                ELSE Some(isoformat(Val(t.steps[i].end))),
                        duration_seconds |-> t.steps[i].duration]]]

\* The file save_report writes: <output_dir>/<date of flow start>/
\* order_<order_id>_<HH-MM-SS of flow start>.json holding the summary.
ReportFile(t) ==
    [date_dir |-> Val(t.start_time) \div Seconds(86400),
     order |-> t.order_id,
     timestamp |-> Val(t.start_time) \div Seconds(1),
     content |-> generate_summary(t)]

\* save_report as it would be if its guard looked at the flow start alone.
SaveWritesWithoutEnd(t) == ~IsNone(t.start_time)

\* TimingTracker.save_report: whether it writes a file at all.
SaveWrites(t) == ~(IsNone(t.start_time) \/ IsNone(t.end_time))

\* --------------------------------------------------------------- exceptions
\* An exception is its class and the text str(e) gives; n is the attempt
\* count the text of the poll's own error carries (0 elsewhere).
Exc(type, msg) == [type |-> type, msg |-> msg, n |-> 0]

\* raise Exception(f"B2B order {order_id} not found after {max_retries} attempts")
NotFoundError(n) == [type |-> "Exception", msg |-> "not found after attempts", n |-> n]

\* Response.raise_for_status() on a 4xx/5xx status, and a failed request.
HTTPError == Exc("HTTPError", "error status")
ConnectionError == Exc("ConnectionError", "request failed")

\* requests.exceptions.RequestException and its subclasses.
IsRequestException(e) == e.type \in {"HTTPError", "ConnectionError"}

\* str(e), as put in the failure result.
str(e) == [msg |-> e.msg, n |-> e.n]

\* What a gateway method can raise: a failed request, an error status, or a
\* response body without the key the code reads.
GatewayErrors == {HTTPError, ConnectionError, Exc("KeyError", "missing key")}

\* ------------------------------------------------------------ TimingSummary
\* How many files the scanned directory holds at most, beside those a run
\* wrote.
MaxFiles == 2

\* dict.get(key, default)
get(d, key, default) == IF key \in DOMAIN d THEN d[key] ELSE default

\* min(a, b) and max(a, b)
min(a, b) == IF a <= b THEN a ELSE b
max(a, b) == IF a >= b THEN a ELSE b

RECURSIVE gcd(_, _)
gcd(a, b) == IF b = 0 THEN a ELSE gcd(b, a % b)

\* a / b on floats, kept exact: the fraction in lowest terms (b > 0).
Div(a, b) == [num |-> a \div gcd(a, b), den |-> b \div gcd(a, b)]

\* json.dump(obj, f): the text of a file; json.load(f): the object of a
\* JSON text, None for a JSONDecodeError.
json_dump(obj) == [json |-> obj]
json_load(body) == IF "json" \in DOMAIN body THEN Some(body.json) ELSE None

\* datetime.fromisoformat(s).timestamp(), None for a ValueError.
fromisoformat(s) == IF "iso" \in DOMAIN s THEN Some(s.iso) ELSE None

\* datetime.fromisoformat(data[key]).timestamp(), None when it raises
\* (KeyError for a missing key, ValueError for an unparseable text).
Instant(data, key) ==
    IF key \in DOMAIN data THEN fromisoformat(data[key]) ELSE None

\* The file save_report wrote, as the directory scan meets it: its name
\* order_<order_id>_<timestamp>.json and its JSON text.
FileOf(r) ==
    [name |-> [order |-> r.order, timestamp |-> r.timestamp],
     body |-> json_dump(r.content)]

\* TimingSummary.__init__: timing_data and summary.  float('inf') is None;
\* step_metrics lists the steps in the order the dict met their names.
TimingSummary ==
    [timing_data |-> <<>>,
     summary |-> [total_orders |-> 0, successful_orders |-> 0,
                  failed_orders |-> 0, total_duration |-> 0,
                  average_duration |-> Div(0, 1), min_duration |-> None,
                  max_duration |-> 0, step_metrics |-> <<>>,
                  batch_metrics |-> <<>>, orders |-> <<>>]]

\* load_timing_data: batch_info before the loop.
BatchInfo ==
    [start_time |-> None, end_time |-> None, total_duration |-> 0,
     order_count |-> 0, successful_orders |-> 0, failed_orders |-> 0,
     orders |-> <<>>]

\* The classification as it would be if a report had to say it succeeded.
success_unless_recorded(data) == get(data, "success", FALSE)

\* data.get("success", True): how load_timing_data and calculate_metrics
\* classify a loaded report.
success_of(data) == get(data, "success", TRUE)

\* load_timing_data, one turn of its loop on file f.  A name holding "None"
\* is passed over; an exception anywhere in the try block is caught, and
\* what the block did before it stays done.  (A timestamp is never 0.0, so
\* `not batch_info["start_time"]` is the test for None.)
load_file(timing_data, batch_info, f) ==
    LET same == [timing_data |-> timing_data, batch_info |-> batch_info]
    IN
    IF IsNone(f.name.order) THEN same
    ELSE IF IsNone(json_load(f.body)) THEN same
    ELSE
        LET data == Val(json_load(f.body))
            ok == success_of(data)
            counted ==
                [batch_info EXCEPT
                    !.orders = Append(@, data),
                    !.order_count = @ + 1,
                    !.successful_orders = IF ok THEN @ + 1 ELSE @,
                    !.failed_orders = IF ok THEN @ ELSE @ + 1]
            s == Instant(data, "flow_start")
            e == Instant(data, "flow_end")
        IN  [timing_data |-> Append(timing_data, data),
             batch_info |->
                IF IsNone(s) \/ IsNone(e)
                THEN counted
                ELSE [counted EXCEPT
                        !.start_time =
                            IF IsNone(@) \/ Val(s) < Val(@) THEN s ELSE @,
                        !.end_time =
                            IF IsNone(@) \/ Val(e) > Val(@) THEN e ELSE @]]

\* load_timing_data after the loop: the batch duration and the rollup.
end_load(summary, batch_info) ==
    LET b == IF ~IsNone(batch_info.start_time) /\ ~IsNone(batch_info.end_time)
             THEN [batch_info EXCEPT !.total_duration =
                        Val(batch_info.end_time) - Val(batch_info.start_time)]
             ELSE batch_info
    IN  IF b.order_count > 0
        THEN [summary EXCEPT !.batch_metrics = Append(@, b)]
        ELSE summary

RECURSIVE SumSeq(_)
SumSeq(q) == IF Len(q) = 0 THEN 0 ELSE Head(q) + SumSeq(Tail(q))

MinSeq(q) == CHOOSE x \in {q[i] : i \in 1..Len(q)} :
                \A i \in 1..Len(q) : x <= q[i]
MaxSeq(q) == CHOOSE x \in {q[i] : i \in 1..Len(q)} :
                \A i \in 1..Len(q) : x >= q[i]

\* The reports a successes-only statistic would range over.
durations_of_successful(timing_data) ==
    LET good == SelectSeq(timing_data, LAMBDA data : get(data, "success", TRUE))
    IN  [i \in 1..Len(good) |-> get(good[i], "total_duration", 0)]

\* calculate_metrics: durations = [float(data.get("total_duration", 0)) for
\* data in self.timing_data]
durations(timing_data) ==
    [i \in 1..Len(timing_data) |-> get(timing_data[i], "total_duration", 0)]

\* summary["step_metrics"][step_name] of the defaultdict: a name not met
\* before gets the default entry, at the end.
MetricIndex(ms, step_name) ==
    IF \E i \in 1..Len(ms) : ms[i].name = step_name
    THEN CHOOSE i \in 1..Len(ms) : ms[i].name = step_name
    ELSE 0

StepMetric(step_name) ==
    [name |-> step_name, total_duration |-> 0, average_duration |-> Div(0, 1),
     min_duration |-> None, max_duration |-> 0, count |-> 0]

\* calculate_metrics: the body of the loop over steps.items().
add_duration(ms, step_name, duration) ==
    LET all == IF MetricIndex(ms, step_name) = 0
               THEN Append(ms, StepMetric(step_name))
               ELSE ms
        i == MetricIndex(all, step_name)
    IN  [all EXCEPT
            ![i].total_duration = @ + duration,
            ![i].count = @ + 1,
            ![i].min_duration = Some(IF IsNone(@) THEN duration
                                     ELSE min(Val(@), duration)),
            ![i].max_duration = max(@, duration)]

RECURSIVE add_steps(_, _)
add_steps(ms, steps) ==
    IF Len(steps) = 0 THEN ms
    ELSE add_steps(add_duration(ms, Head(steps).name,
                                get(Head(steps), "duration", 0)),
                   Tail(steps))

\* calculate_metrics: the loop over timing_data that fills step_metrics.
RECURSIVE step_metrics(_, _)
step_metrics(ms, timing_data) ==
    IF Len(timing_data) = 0 THEN ms
    ELSE step_metrics(add_steps(ms, get(Head(timing_data), "steps", <<>>)),
                      Tail(timing_data))

\* calculate_metrics: the averages of the steps.
step_averages(ms) ==
    [i \in 1..Len(ms) |->
        IF ms[i].count > 0
        THEN [ms[i] EXCEPT !.average_duration =
                    Div(ms[i].total_duration, ms[i].count)]
        ELSE ms[i]]

\* sorted(timing_data, key = flow_start): stable, by insertion.
RECURSIVE sorted(_)
sorted(q) ==
    IF Len(q) = 0 THEN <<>>
    ELSE LET rest == sorted(SubSeq(q, 1, Len(q) - 1))
             x == q[Len(q)]
             key(d) == Val(Instant(d, "flow_start"))
             n == Cardinality({i \in 1..Len(rest) : key(rest[i]) <= key(x)})
         IN  SubSeq(rest, 1, n) \o << x >> \o SubSeq(rest, n + 1, Len(rest))

\* TimingSummary.calculate_metrics: the summary it leaves and the exception
\* it raises, if any.  The sort key reads x["flow_start"] outside any try;
\* the statistics are assigned before the sort.
calculate_metrics(summary, timing_data) ==
    IF Len(timing_data) = 0
    THEN [summary |-> summary, raised |-> None]
    ELSE
        LET n == Len(timing_data)
            n_ok == Cardinality({i \in 1..n : success_of(timing_data[i])})
            ds == durations(timing_data)
            counts == [summary EXCEPT
                        !.total_orders = n,
                        !.successful_orders = n_ok,
                        !.failed_orders = n - n_ok]
            overall == IF Len(ds) > 0
                       THEN [counts EXCEPT
                                !.total_duration = SumSeq(ds),
                                !.average_duration = Div(SumSeq(ds), Len(ds)),
                                !.min_duration = Some(MinSeq(ds)),
                                !.max_duration = MaxSeq(ds)]
                       ELSE counts
            stats == [overall EXCEPT !.step_metrics =
                        step_averages(step_metrics(@, timing_data))]
        IN  IF \A i \in 1..n : ~IsNone(Instant(timing_data[i], "flow_start"))
            THEN [summary |-> [stats EXCEPT !.orders = sorted(timing_data)],
                  raised |-> None]
            ELSE [summary |-> stats,
                  raised |-> Some(Exc("KeyError", "flow_start"))]

\* generate_report before it is called.
GenInit ==
    [pc |-> "new", files |-> <<>>, i |-> 0, batch_info |-> BatchInfo,
     raised |-> None, returned |-> None]

\* -------------------------------------------------------------------- state
VARIABLES
    config,    \* --b2b-order, --max-retries, --retry-delay; B2B_STOREFRONT_TOKEN set?
    now,       \* the wall clock, in tenths of a second
    timing,    \* the run's TimingTracker
    pc,        \* where process_single_order stands
    step,      \* the index in StepNames of the step at hand (0 before the first)
    poll,      \* poll_b2b_order: its loop variable, what it did, how it ended
    locals,    \* order_id, b2b_order, erp_response, edges, verification_result
    result,    \* what process_single_order returned (None while it runs)
    raised,    \* the exception that left process_single_order (None if none)
    reports,   \* the report files written, in order
    calls,     \* the start_step / end_step calls made on the tracker, in order
    dir,       \* the order_*.json files the scanned directory held beforehand
    ts,        \* the TimingSummary object: timing_data and summary
    gen,       \* generate_report: where it stands, the files it scans, batch_info
    batch,     \* --mode, --num-orders, --delay, --max-concurrent
    runner,    \* process_orders_*: where it stands, its loop variable, results
    tasks,     \* the process_with_semaphore coroutines gather runs, by order number
    semaphore, \* the asyncio.Semaphore: its value and its waiters
    loop,      \* the event loop: the tasks ready to run, the order under way
    events,    \* the starts and ends of runs and the inter-order delays, in order
    main       \* main: whether it still runs, and the exit status it ended with

vars == << config, now, timing, pc, step, poll, locals, result, raised, reports, calls,
           dir, ts, gen, batch, main, runner, tasks, semaphore, loop, events, main >>

\* The state of main and of the batch runners.
batch_vars == << batch, runner, tasks, semaphore, loop, events, main >>

\* What a step of process_single_order leaves alone.
outside == << dir, ts, gen, batch_vars >>

\* process_orders_* before its first statement.
RunnerInit == [pc |-> "new", i |-> 0, results |-> <<>>, delays |-> 0]

\* The event loop with nothing to run.
LoopInit == [ready |-> <<>>, current |-> 0]

\* main before its try block.
MainInit == [pc |-> "running", exit_code |-> None]

\* The batch variables when main runs in single mode, with the defaults of
\* the batch arguments.
SingleMode ==
    /\ batch = [mode |-> "single", num_orders |-> 1, delay_seconds |-> 5,
                max_concurrent |-> 3]
    /\ runner = RunnerInit
    /\ tasks = <<>>
    /\ semaphore = None
    /\ loop = LoopInit
    /\ events = <<>>
    /\ main = MainInit

\* poll_b2b_order before its first iteration.
PollInit ==
    [attempt |-> 0, requests |-> 0, sleeps |-> 0, responses |-> <<>>, result |-> None]

LocalsInit ==
    [order_id |-> None, b2b_order |-> None, erp_response |-> None,
     edges |-> None, verification_result |-> None]

Init ==
    /\ config \in [b2b_order : {"default", "alt"},
                   max_retries : 0..MaxRetries,
                   retry_delay : 0..MaxDelay,
                   storefront_token : BOOLEAN]
    /\ now = 0
    /\ timing = TimingTracker
    /\ pc = "new"
    /\ step = 0
    /\ poll = PollInit
    /\ locals = LocalsInit
    /\ result = None
    /\ raised = None
    /\ reports = <<>>
    /\ calls = <<>>
    /\ dir = <<>>
    /\ ts = TimingSummary
    /\ gen = GenInit
    /\ SingleMode

\* The time an HTTP call may take.
Latencies == IF now < MaxClock THEN {0, 1} ELSE {0}

\* ----------------------------------------------------- process_single_order
\* The handler as it would be with `except requests.exceptions.RequestException`:
\* any other exception leaves process_single_order.
CatchRequestExceptionOnly(e) ==
    /\ IF IsRequestException(e)
       THEN /\ result' = Some([success |-> FALSE, error |-> str(e)])
            /\ raised' = None
            /\ pc' = "done"
       ELSE /\ result' = result
            /\ raised' = Some(e)
            /\ pc' = "raised"
    /\ UNCHANGED << timing, reports, calls, step >>

\* The handler of the try block: except Exception as e: log, and return
\* {success: False, error: str(e)}.  It neither ends the flow nor saves.
Catch(e) ==
    /\ result' = Some([success |-> FALSE, error |-> str(e)])
    /\ raised' = None
    /\ pc' = "done"
    /\ UNCHANGED << timing, reports, calls, step >>

\* The sequence as it would be without the update_shipping_option block.
NextStepSkipping(s) == IF s = 2 THEN 4 ELSE s + 1

\* The step started after step s ends.
NextStep(s) == s + 1

\* timing.end_step(name) followed by the next statement of the sequence.
EndStepAndGo(name, clk, next_pc, next_step) ==
    /\ timing' = end_step(timing, name, clk)
    /\ calls' = Append(calls, << "end", name >>)
    /\ pc' = next_pc
    /\ step' = next_step
    /\ UNCHANGED << result, raised, reports >>

\* main / process_orders_*: timing = TimingTracker(); timing.start_flow(),
\* then process_single_order is entered.
StartFlow ==
    /\ pc = "new"
    /\ timing' = start_flow(timing, now)
    /\ pc' = "start_step"
    /\ step' = NextStep(step)
    /\ UNCHANGED << config, now, poll, locals, result, raised, reports, calls >>
    /\ UNCHANGED outside

\* Which statement follows timing.start_step(name).
AfterStart(name) ==
    IF name = "esl_retrieval" /\ config.b2b_order # "default" THEN "poll" ELSE "call"

\* timing.start_step(<name>) of the step at hand.
BeginStep ==
    /\ pc = "start_step"
    /\ timing' = start_step(timing, StepNames[step], now)
    /\ calls' = Append(calls, << "start", StepNames[step] >>)
    /\ pc' = AfterStart(StepNames[step])
    /\ UNCHANGED << config, now, step, poll, locals, result, raised, reports >>
    /\ UNCHANGED outside

\* Steps whose gateway call yields nothing the flow keeps: create_cart (the
\* cart id), update_shipping_option, add_billing_address,
\* update_order_status, update_b2b_order.
SimpleSteps ==
    { "create_cart", "update_shipping_option", "add_billing_address",
      "update_order_status", "update_b2b_order" }

SimpleCall ==
    /\ pc = "call"
    /\ StepNames[step] \in SimpleSteps
    /\ \E d \in Latencies :
        /\ now' = now + d
        /\ \/ EndStepAndGo(StepNames[step], now', "start_step", NextStep(step))
           \/ \E e \in GatewayErrors : Catch(e)
    /\ UNCHANGED << config, poll, locals >>
    /\ UNCHANGED outside

\* add_shipping_address and consignment_data['consignments'][0]['id'], then
\* end_step; the shipping option is read after the step has ended.
AddShippingAddress ==
    /\ pc = "call"
    /\ StepNames[step] = "add_shipping_address"
    /\ \E d \in Latencies :
        /\ now' = now + d
        /\ \/ EndStepAndGo(StepNames[step], now', "pick_option", step)
           \/ \E e \in GatewayErrors \cup {Exc("IndexError", "list index out of range")} :
                Catch(e)
    /\ UNCHANGED << config, poll, locals >>
    /\ UNCHANGED outside

\* shipping_option_id = ...['available_shipping_options'][0]['id'], between
\* two steps.
PickShippingOption ==
    /\ pc = "pick_option"
    /\ \/ /\ pc' = "start_step"
          /\ step' = NextStep(step)
          /\ UNCHANGED << timing, result, raised, reports, calls >>
       \/ Catch(Exc("IndexError", "list index out of range"))
    /\ UNCHANGED << config, now, poll, locals >>
    /\ UNCHANGED outside

\* order = create_order(cart_id); order_id = order['id'];
\* timing.set_order_id(order_id); timing.end_step('create_order')
CreateOrder ==
    /\ pc = "call"
    /\ StepNames[step] = "create_order"
    /\ \E d \in Latencies :
        /\ now' = now + d
        /\ \/ \E id \in OrderIds :
                /\ locals' = [locals EXCEPT !.order_id = Some(id)]
                /\ timing' = end_step(set_order_id(timing, id), StepNames[step], now')
                /\ calls' = Append(calls, << "end", StepNames[step] >>)
                /\ pc' = "start_step"
                /\ step' = NextStep(step)
                /\ UNCHANGED << result, raised, reports >>
           \/ /\ \E e \in GatewayErrors : Catch(e)
              /\ UNCHANGED locals
    /\ UNCHANGED << config, poll >>
    /\ UNCHANGED outside

\* esl_retrieval, 'default': order_details = get_order_details(order_id);
\* customer_id = order_details['customer_id']
GetOrderDetails ==
    /\ pc = "call"
    /\ StepNames[step] = "esl_retrieval"
    /\ \E d \in Latencies :
        /\ now' = now + d
        /\ \/ /\ pc' = "create_b2b_order"
              /\ UNCHANGED << timing, step, result, raised, reports, calls >>
           \/ \E e \in GatewayErrors : Catch(e)
    /\ UNCHANGED << config, poll, locals >>
    /\ UNCHANGED outside

\* esl_retrieval, 'default': b2b_order = create_b2b_order(order_id,
\* customer_id); timing.end_step('esl_retrieval')
CreateB2BOrder ==
    /\ pc = "create_b2b_order"
    /\ \E d \in Latencies :
        /\ now' = now + d
        /\ \/ /\ \E body \in B2BBodies :
                    locals' = [locals EXCEPT !.b2b_order = Some(body)]
              /\ EndStepAndGo(StepNames[step], now', "start_step", NextStep(step))
           \/ /\ \E e \in GatewayErrors : Catch(e)
              /\ UNCHANGED locals
    /\ UNCHANGED << config, poll >>
    /\ UNCHANGED outside

\* ----------------------------------------------------------- poll_b2b_order
\* What one GET of the B2B order can bring: 200 with the order as its body,
\* 404, a 4xx/5xx status other than 404, a failed request, or a status that
\* is neither 200 nor an error (204, 3xx).
Responses ==
    {[status |-> "200", body |-> Some(b)] : b \in B2BBodies}
    \cup {[status |-> st, body |-> None] :
            st \in {"404", "error_status", "request_failed", "other_status"}}

\* The RequestException an attempt raises inside the try block, if any:
\* requests.get raising, or raise_for_status() on an error status.
RequestError(resp) ==
    CASE resp.status = "request_failed" -> Some(ConnectionError)
      [] resp.status = "error_status" -> Some(HTTPError)
      [] OTHER -> None

\* What the loop body does with the response of iteration `attempt`:
\* return the body, sleep and go on, raise, or fall through to the next
\* iteration (a status raise_for_status() accepts).
PollDo(act, body, exc) == [act |-> act, body |-> body, exc |-> exc]

NoExc == Exc("", "")

\* The loop body with `attempt < max_retries` in the 404 branch: it sleeps
\* after the last attempt too and never raises the not-found error.
PollStepSleepsAfterLast(resp, attempt, max_retries) ==
    CASE resp.status = "200" -> PollDo("return", resp.body, NoExc)
      [] resp.status = "404" ->
            IF attempt < max_retries
            THEN PollDo("sleep", None, NoExc)
            ELSE PollDo("raise", None, NotFoundError(max_retries))
      [] ~IsNone(RequestError(resp)) ->
            IF attempt < max_retries - 1
            THEN PollDo("sleep", None, NoExc)
            ELSE PollDo("raise", None, Val(RequestError(resp)))
      [] OTHER -> PollDo("next", None, NoExc)

\* The loop body without the `return order_data` of the 200 branch.
PollStepWithoutReturn(resp, attempt, max_retries) ==
    CASE resp.status = "200" -> PollDo("next", None, NoExc)
      [] resp.status = "404" ->
            IF attempt < max_retries - 1
            THEN PollDo("sleep", None, NoExc)
            ELSE PollDo("raise", None, NotFoundError(max_retries))
      [] ~IsNone(RequestError(resp)) ->
            IF attempt < max_retries - 1
            THEN PollDo("sleep", None, NoExc)
            ELSE PollDo("raise", None, Val(RequestError(resp)))
      [] OTHER -> PollDo("next", None, NoExc)

\* The loop body with an except clause that always re-raises: a transport
\* failure is not retried.
PollStepWithoutRetry(resp, attempt, max_retries) ==
    CASE resp.status = "200" -> PollDo("return", resp.body, NoExc)
      [] resp.status = "404" ->
            IF attempt < max_retries - 1
            THEN PollDo("sleep", None, NoExc)
            ELSE PollDo("raise", None, NotFoundError(max_retries))
      [] ~IsNone(RequestError(resp)) ->
            PollDo("raise", None, Val(RequestError(resp)))
      [] OTHER -> PollDo("next", None, NoExc)

PollStep(resp, attempt, max_retries) ==
    CASE resp.status = "200" -> PollDo("return", resp.body, NoExc)
      [] resp.status = "404" ->
            IF attempt < max_retries - 1
            THEN PollDo("sleep", None, NoExc)
            ELSE PollDo("raise", None, NotFoundError(max_retries))
      [] ~IsNone(RequestError(resp)) ->
            IF attempt < max_retries - 1
            THEN PollDo("sleep", None, NoExc)
            ELSE PollDo("raise", None, Val(RequestError(resp)))
      [] OTHER -> PollDo("next", None, NoExc)

\* How a call of poll_b2b_order ended: it returned a value or raised.
Returned(v) == [kind |-> "return", value |-> v, exc |-> NoExc]
Raised(e) == [kind |-> "raise", value |-> None, exc |-> e]

\* poll_b2b_order returns v: b2b_order = v, then
\* timing.end_step('esl_retrieval') and on to the next step.
PollReturn(v, clk) ==
    /\ locals' = [locals EXCEPT !.b2b_order = v]
    /\ EndStepAndGo(StepNames[step], clk, "start_step", NextStep(step))

\* poll_b2b_order raises e, which process_single_order catches.
PollRaise(e) ==
    /\ Catch(e)
    /\ UNCHANGED locals

\* The loop as it would be if its body ran once before the bound is tested.
InRangeAfterFirst(attempt, max_retries) == attempt = 0 \/ attempt < max_retries

\* `for attempt in range(max_retries)`: whether there is an iteration for
\* this value of attempt; there is none at all for max_retries <= 0.
InRange(attempt, max_retries) == attempt < max_retries

\* One iteration of `for attempt in range(max_retries)`: the GET and what
\* the code does with the response.
PollRequest ==
    /\ pc = "poll"
    /\ InRange(poll.attempt, config.max_retries)
    /\ \E resp \in Responses, d \in Latencies :
        LET asked == [poll EXCEPT !.requests = @ + 1,
                                  !.responses = Append(@, resp)]
            do == PollStep(resp, poll.attempt, config.max_retries)
        IN
        /\ now' = now + d
        /\ \/ /\ do.act = "return"
              /\ poll' = [asked EXCEPT !.result = Some(Returned(do.body))]
              /\ PollReturn(do.body, now')
           \/ /\ do.act = "sleep"
              /\ poll' = asked
              /\ pc' = "poll_sleep"
              /\ UNCHANGED << timing, step, locals, result, raised, reports, calls >>
           \/ /\ do.act = "raise"
              /\ poll' = [asked EXCEPT !.result = Some(Raised(do.exc))]
              /\ PollRaise(do.exc)
           \/ /\ do.act = "next"
              /\ poll' = [asked EXCEPT !.attempt = @ + 1]
              /\ UNCHANGED << timing, pc, step, locals, result, raised, reports, calls >>
    /\ UNCHANGED config
    /\ UNCHANGED outside

\* time.sleep(delay_seconds), then the next iteration.
PollSleep ==
    /\ pc = "poll_sleep"
    /\ now' = now + Seconds(config.retry_delay)
    /\ poll' = [poll EXCEPT !.sleeps = @ + 1, !.attempt = @ + 1]
    /\ pc' = "poll"
    /\ UNCHANGED << config, timing, step, locals, result, raised, reports, calls >>
    /\ UNCHANGED outside

\* range(max_retries) is used up (or was empty): the function ends without
\* a return statement, so the call yields None.
PollExhausted ==
    /\ pc = "poll"
    /\ ~InRange(poll.attempt, config.max_retries)
    /\ poll' = [poll EXCEPT !.result = Some(Returned(None))]
    /\ PollReturn(None, now)
    /\ UNCHANGED << config, now >>
    /\ UNCHANGED outside

\* ------------------------------------------------------------- later steps
\* send_to_erp(b2b_order): b2b_order.get('id') is evaluated for the first
\* log line, before the sleep; with b2b_order None it raises AttributeError.
\* Otherwise sleep 0.4 s and build the response from the order and the time.
erp_response_of(b2b, clk) ==
    [poNumber |-> << "PO", b2b.id, clk \div Seconds(1) >>,
     extraField1 |-> "ERP_PROCESSED"]

SendToErp ==
    /\ pc = "call"
    /\ StepNames[step] = "erp_processing"
    /\ \/ /\ ~IsNone(locals.b2b_order)
          /\ now' = now + ErpDelay
          /\ locals' = [locals EXCEPT
                          !.erp_response = Some(erp_response_of(Val(locals.b2b_order), now'))]
          /\ EndStepAndGo(StepNames[step], now', "start_step", NextStep(step))
       \/ /\ IsNone(locals.b2b_order)
          /\ Catch(Exc("AttributeError", "NoneType has no attribute get"))
          /\ UNCHANGED << now, locals >>
    /\ UNCHANGED << config, poll >>
    /\ UNCHANGED outside

\* verify_storefront_order: what it returns when the query succeeded.
verification_result_of(found) ==
    IF found
    THEN [success |-> TRUE, message |-> "Order found in B2B Storefront API"]
    ELSE [success |-> FALSE, message |-> "Order not found in B2B Storefront API"]

\* verify_storefront_order as it would be if a response without edges
\* were raised as an error instead of returned.
VerifyStepRaisingOnMiss(found) ==
    IF found
    THEN [act |-> "return", value |-> verification_result_of(found), exc |-> NoExc]
    ELSE [act |-> "raise", value |-> verification_result_of(found),
          exc |-> Exc("Exception", "Order not found in B2B Storefront API")]

\* verify_storefront_order once the GraphQL response is there: with or
\* without edges it returns a result, it does not raise.
VerifyStep(found) ==
    [act |-> "return", value |-> verification_result_of(found), exc |-> NoExc]

\* verify_storefront_order(order_id) and timing.end_step: a missing token is
\* a ValueError, re-raised; a response without edges is a returned value.
\* locals.edges keeps whether the response held an edge.
VerifyStorefront ==
    /\ pc = "call"
    /\ StepNames[step] = "storefront_verification"
    /\ \/ /\ ~config.storefront_token
          /\ Catch(Exc("ValueError", "B2B_STOREFRONT_TOKEN environment variable is not set"))
          /\ UNCHANGED << now, locals >>
       \/ /\ config.storefront_token
          /\ \E d \in Latencies :
              /\ now' = now + d
              /\ \/ \E found \in BOOLEAN :
                      IF VerifyStep(found).act = "return"
                      THEN /\ locals' = [locals EXCEPT
                                  !.edges = Some(found),
                                  !.verification_result = Some(VerifyStep(found).value)]
                           /\ EndStepAndGo(StepNames[step], now', "end_flow", step)
                      ELSE /\ locals' = [locals EXCEPT !.edges = Some(found)]
                           /\ Catch(VerifyStep(found).exc)
                 \/ /\ \E e \in GatewayErrors : Catch(e)
                    /\ UNCHANGED locals
    /\ UNCHANGED << config, poll >>
    /\ UNCHANGED outside

\* timing.end_flow()
EndFlow ==
    /\ pc = "end_flow"
    /\ timing' = end_flow(timing, now)
    /\ pc' = "save_report"
    /\ UNCHANGED << config, now, step, poll, locals, result, raised, reports, calls >>
    /\ UNCHANGED outside

\* The value returned at the end of the try block.
SuccessResult(t, order_id) ==
    [success |-> TRUE, order_id |-> order_id, summary |-> generate_summary(t)]

\* summary = timing.generate_summary(); timing.save_report(reports_dir);
\* return {success: True, order_id, summary}.  Creating the directories or
\* writing the file can fail, and that too is caught by the handler.
SaveReport ==
    /\ pc = "save_report"
    /\ \/ /\ reports' = IF SaveWrites(timing)
                        THEN Append(reports, ReportFile(timing))
                        ELSE reports
          /\ result' = Some(SuccessResult(timing, locals.order_id))
          /\ pc' = "done"
          /\ UNCHANGED << timing, step, raised, calls >>
       \/ /\ SaveWrites(timing)
          /\ Catch(Exc("OSError", "cannot write report"))
    /\ UNCHANGED << config, now, poll, locals >>
    /\ UNCHANGED outside

\* The run of a step of process_single_order leaves the aggregator alone and
\* the other way round.
run_vars == << config, now, timing, pc, step, poll, locals, result, raised, reports, calls >>

\* ------------------------------------------- a TimingTracker on its own
\* The step names a caller of the tracker passes.
TrackerNames == { StepNames[1], StepNames[2] }

\* A caller may make one more call; the clock moves on between two calls.
MayCall == pc = "idle" /\ Len(calls) < MaxCalls

\* What a call on the tracker leaves alone.
beside_tracker ==
    << config, pc, step, poll, locals, result, raised, dir, ts, gen, batch_vars >>

\* timing.start_flow()
CallStartFlow ==
    /\ MayCall
    /\ now' = now + 1
    /\ timing' = start_flow(timing, now')
    /\ calls' = Append(calls, << "start_flow", "" >>)
    /\ UNCHANGED << reports, beside_tracker >>

\* timing.start_step(name)
CallStartStep ==
    /\ MayCall
    /\ now' = now + 1
    /\ \E name \in TrackerNames :
        /\ timing' = start_step(timing, name, now')
        /\ calls' = Append(calls, << "start", name >>)
    /\ UNCHANGED << reports, beside_tracker >>

\* timing.end_step(name)
CallEndStep ==
    /\ MayCall
    /\ now' = now + 1
    /\ \E name \in TrackerNames :
        /\ timing' = end_step(timing, name, now')
        /\ calls' = Append(calls, << "end", name >>)
    /\ UNCHANGED << reports, beside_tracker >>

\* timing.end_flow()
CallEndFlow ==
    /\ MayCall
    /\ now' = now + 1
    /\ timing' = end_flow(timing, now')
    /\ calls' = Append(calls, << "end_flow", "" >>)
    /\ UNCHANGED << reports, beside_tracker >>

\* timing.save_report(): a file, unless a flow instant is missing.
CallSaveReport ==
    /\ MayCall
    /\ now' = now + 1
    /\ reports' = IF SaveWrites(timing)
                  THEN Append(reports, ReportFile(timing))
                  ELSE reports
    /\ calls' = Append(calls, << "save_report", "" >>)
    /\ UNCHANGED << timing, beside_tracker >>

\* ---------------------------------------------------------------------- main
\* The exit status of the interpreter: main's handler logs and re-raises
\* what reaches it, which ends the process with status 1; a main that
\* returns ends it with status 0.
ExitStatus(exc) == IF IsNone(exc) THEN 0 ELSE 1

\* main, single mode, after asyncio.run(process_single_order(...)): the
\* value the run returned is not looked at, and main returns.
MainReturn ==
    /\ batch.mode = "single"
    /\ main.pc = "running"
    /\ pc \in {"done", "raised"}
    /\ main' = [pc |-> "exited", exit_code |-> Some(ExitStatus(raised))]
    /\ UNCHANGED << run_vars, dir, ts, gen, batch, runner, tasks, semaphore, loop, events >>

\* ------------------------------------------------------------ batch runners
\* asyncio.Semaphore(value)
Semaphore(value) == [value |-> value, waiters |-> <<>>]

\* locked as it would be for a semaphore that never refuses.
locked_never(sem) == FALSE

\* Semaphore.locked(): no permit left, or somebody already waits.
locked(sem) == sem.value = 0 \/ Len(sem.waiters) > 0

\* acquire as it would be if it handed out permits without counting them.
acquire_uncounted(sem, k) == [granted |-> TRUE, sem |-> sem]

\* Semaphore.acquire() by the task of order k: a permit at once if the
\* semaphore is not locked, else the task joins the waiters and suspends.
acquire(sem, k) ==
    IF ~locked(sem)
    THEN [granted |-> TRUE, sem |-> [sem EXCEPT !.value = @ - 1]]
    ELSE [granted |-> FALSE, sem |-> [sem EXCEPT !.waiters = Append(@, k)]]

\* release as it would be if the permit were not given back.
release_keeping_permit(sem) ==
    IF Len(sem.waiters) = 0
    THEN [sem |-> sem, woken |-> 0]
    ELSE [sem |-> [value |-> sem.value, waiters |-> Tail(sem.waiters)],
          woken |-> Head(sem.waiters)]

\* Semaphore.release(): the permit is given back and the first waiter, if
\* any, is woken (woken = 0 if none) to try again.
release(sem) ==
    IF Len(sem.waiters) = 0
    THEN [sem |-> [sem EXCEPT !.value = @ + 1], woken |-> 0]
    ELSE [sem |-> [value |-> sem.value + 1, waiters |-> Tail(sem.waiters)],
          woken |-> Head(sem.waiters)]

\* gather as it would be if it listed the results last order first.
gather_results_reversed(tt) ==
    [k \in 1..Len(tt) |-> Val(tt[Len(tt) + 1 - k].result)]

\* asyncio.gather(*tasks): the results in the order of the awaitables.
gather_results(tt) == [k \in 1..Len(tt) |-> Val(tt[k].result)]

\* The delay test as it would be without "- 1".
delay_after_every(i, num_orders) == i < num_orders

\* process_orders_sequential: if i < num_orders - 1
delay_due(i, num_orders) == i < num_orders - 1

\* The collection as it would be if it kept successful runs only.
append_result_if_success(results, r) ==
    IF r.success THEN Append(results, r) ELSE results

\* process_orders_sequential: results.append(result)
append_result(results, r) == Append(results, r)

\* One entry of the log of events.
Event(ev, order, res) == [ev |-> ev, order |-> order, result |-> res]

\* timing = TimingTracker(), and process_single_order is about to be
\* entered with it: a run of its own, with nothing of the run before.
EnterRun ==
    /\ timing' = TimingTracker
    /\ pc' = "new"
    /\ step' = 0
    /\ poll' = PollInit
    /\ locals' = LocalsInit
    /\ result' = None
    /\ raised' = None
    /\ calls' = <<>>

\* process_single_order has returned to its caller: its frame is gone.
LeaveRun ==
    /\ timing' = TimingTracker
    /\ pc' = "idle"
    /\ step' = 0
    /\ poll' = PollInit
    /\ locals' = LocalsInit
    /\ result' = None
    /\ raised' = None
    /\ calls' = <<>>

\* process_orders_sequential: the loop goes on with order i + 1.
SeqStartRun ==
    /\ batch.mode = "sequential"
    /\ runner.pc \in {"new", "loop"}
    /\ runner.i < batch.num_orders
    /\ runner' = [runner EXCEPT !.pc = "await_run"]
    /\ loop' = [loop EXCEPT !.current = runner.i + 1]
    /\ events' = Append(events, Event("start", runner.i + 1, None))
    /\ EnterRun
    /\ UNCHANGED << config, now, reports, dir, ts, gen, batch, main, tasks, semaphore >>

\* process_orders_sequential: process_single_order returned; its result is
\* appended, and the loop sleeps unless this was the last order.
SeqCollect ==
    /\ batch.mode = "sequential"
    /\ runner.pc = "await_run"
    /\ pc = "done"
    /\ runner' = [runner EXCEPT
                    !.results = append_result(@, Val(result)),
                    !.pc = IF delay_due(runner.i, batch.num_orders)
                           THEN "sleep" ELSE "loop",
                    !.i = IF delay_due(runner.i, batch.num_orders)
                          THEN @ ELSE @ + 1]
    /\ loop' = [loop EXCEPT !.current = 0]
    /\ events' = Append(events, Event("end", runner.i + 1, result))
    /\ LeaveRun
    /\ UNCHANGED << config, now, reports, dir, ts, gen, batch, main, tasks, semaphore >>

\* process_orders_sequential: await asyncio.sleep(delay_seconds)
SeqDelay ==
    /\ batch.mode = "sequential"
    /\ runner.pc = "sleep"
    /\ now' = now + Seconds(batch.delay_seconds)
    /\ runner' = [runner EXCEPT !.pc = "loop", !.i = @ + 1, !.delays = @ + 1]
    /\ events' = Append(events, Event("delay", runner.i + 1, None))
    /\ UNCHANGED << config, timing, pc, step, poll, locals, result, raised,
                    reports, calls, dir, ts, gen, batch, main, tasks, semaphore, loop >>

\* process_orders_sequential: range(num_orders) is used up; return results.
SeqReturn ==
    /\ batch.mode = "sequential"
    /\ runner.pc \in {"new", "loop"}
    /\ ~(runner.i < batch.num_orders)
    /\ runner' = [runner EXCEPT !.pc = "returned"]
    /\ UNCHANGED << run_vars, dir, ts, gen, batch, main, tasks, semaphore, loop, events >>

\* process_orders_concurrent up to `await asyncio.gather(*tasks)`: the
\* semaphore, and one coroutine per order, scheduled in order.
CreateTasks ==
    /\ batch.mode = "concurrent"
    /\ runner.pc = "new"
    /\ semaphore' = Some(Semaphore(batch.max_concurrent))
    /\ tasks' = [k \in 1..batch.num_orders |-> [state |-> "pending", result |-> None]]
    /\ loop' = [ready |-> [k \in 1..batch.num_orders |-> k], current |-> 0]
    /\ runner' = [runner EXCEPT !.pc = "gather"]
    /\ UNCHANGED << run_vars, dir, ts, gen, batch, main, events >>

\* The event loop runs the next ready task: process_with_semaphore enters
\* `async with semaphore`.  With a permit it goes straight on to
\* process_single_order; without one it suspends among the waiters.
TaskStart ==
    /\ batch.mode = "concurrent"
    /\ runner.pc = "gather"
    /\ loop.current = 0
    /\ Len(loop.ready) > 0
    /\ LET k == Head(loop.ready)
           a == acquire(Val(semaphore), k)
       IN  /\ semaphore' = Some(a.sem)
           /\ IF a.granted
              THEN /\ tasks' = [tasks EXCEPT ![k].state = "running"]
                   /\ loop' = [ready |-> Tail(loop.ready), current |-> k]
                   /\ events' = Append(events, Event("start", k, None))
                   /\ EnterRun
              ELSE /\ tasks' = [tasks EXCEPT ![k].state = "waiting"]
                   /\ loop' = [ready |-> Tail(loop.ready), current |-> 0]
                   /\ UNCHANGED << events, timing, pc, step, poll, locals,
                                   result, raised, calls >>
    /\ UNCHANGED << config, now, reports, dir, ts, gen, batch, main, runner >>

\* process_single_order returned inside `async with semaphore`: the permit
\* is released and the task is done with the run's result.
TaskFinish ==
    /\ batch.mode = "concurrent"
    /\ loop.current # 0
    /\ pc = "done"
    /\ LET k == loop.current
           r == release(Val(semaphore))
       IN  /\ semaphore' = Some(r.sem)
           /\ tasks' = [j \in 1..Len(tasks) |->
                          IF j = k THEN [state |-> "done", result |-> result]
                          ELSE IF j = r.woken
                               THEN [tasks[j] EXCEPT !.state = "pending"]
                               ELSE tasks[j]]
           /\ loop' = [ready |-> IF r.woken = 0 THEN loop.ready
                                 ELSE Append(loop.ready, r.woken),
                       current |-> 0]
           /\ events' = Append(events, Event("end", k, result))
    /\ LeaveRun
    /\ UNCHANGED << config, now, reports, dir, ts, gen, batch, main, runner >>

\* asyncio.gather: every task is done; process_orders_concurrent returns
\* their results.
GatherReturn ==
    /\ batch.mode = "concurrent"
    /\ runner.pc = "gather"
    /\ \A k \in 1..Len(tasks) : tasks[k].state = "done"
    /\ runner' = [runner EXCEPT !.pc = "returned", !.results = gather_results(tasks)]
    /\ UNCHANGED << run_vars, dir, ts, gen, batch, main, tasks, semaphore, loop, events >>

\* ---------------------------------------------------------- generate_report
\* generate_report is called while no order flow is under way, before or
\* after the single run or after the batch returned: its glob finds the
\* files the directory held and those the runs wrote.
LoadTimingData ==
    /\ gen.pc = "new"
    /\ \/ batch.mode = "single" /\ pc \in {"new", "done"}
       \/ pc = "idle" /\ runner.pc = "returned"
    /\ gen' = [gen EXCEPT !.pc = "load",
                          !.files = dir \o [i \in 1..Len(reports) |-> FileOf(reports[i])]]
    /\ UNCHANGED << run_vars, dir, ts, batch_vars >>

\* load_timing_data: one turn of the loop.
LoadFile ==
    /\ gen.pc = "load"
    /\ gen.i < Len(gen.files)
    /\ LET r == load_file(ts.timing_data, gen.batch_info, gen.files[gen.i + 1])
       IN  /\ ts' = [ts EXCEPT !.timing_data = r.timing_data]
           /\ gen' = [gen EXCEPT !.i = @ + 1, !.batch_info = r.batch_info]
    /\ UNCHANGED << run_vars, dir, batch_vars >>

\* load_timing_data: the statements after the loop.
EndLoad ==
    /\ gen.pc = "load"
    /\ gen.i = Len(gen.files)
    /\ ts' = [ts EXCEPT !.summary = end_load(@, gen.batch_info)]
    /\ gen' = [gen EXCEPT !.pc = "calculate"]
    /\ UNCHANGED << run_vars, dir, batch_vars >>

\* calculate_metrics, and generate_report's return of the summary unless
\* calculate_metrics raised.
CalculateMetrics ==
    /\ gen.pc = "calculate"
    /\ LET r == calculate_metrics(ts.summary, ts.timing_data)
       IN  /\ ts' = [ts EXCEPT !.summary = r.summary]
           /\ gen' = [gen EXCEPT
                        !.pc = IF IsNone(r.raised) THEN "returned" ELSE "raised",
                        !.raised = r.raised,
                        !.returned = IF IsNone(r.raised) THEN Some(r.summary) ELSE None]
    /\ UNCHANGED << run_vars, dir, batch_vars >>

\* --------------------------------------------------------------------- Next
Next ==
    \/ StartFlow
    \/ BeginStep
    \/ SimpleCall
    \/ AddShippingAddress
    \/ PickShippingOption
    \/ CreateOrder
    \/ GetOrderDetails
    \/ CreateB2BOrder
    \/ PollRequest
    \/ PollSleep
    \/ PollExhausted
    \/ SendToErp
    \/ VerifyStorefront
    \/ EndFlow
    \/ SaveReport

Spec == Init /\ [][Next]_vars

\* ---------------------------------------------- the aggregator on its own
\* A report as a run that also recorded its outcome would leave it, in the
\* keys the aggregator reads.
Report(start, total, ok) ==
    [flow_start |-> isoformat(start), flow_end |-> isoformat(start + total),
     total_duration |-> total, success |-> ok,
     steps |-> << [name |-> "create_cart", duration |-> 1],
                  [name |-> "erp_processing", duration |-> total - 1] >>]

\* The files a scanned directory may hold: texts that are not JSON, JSON
\* objects without the instants or with an unparseable one, reports of
\* successful and failed runs, a report without a success key, and a file
\* of a run without order id.
Files ==
    { [name |-> [order |-> Some(101), timestamp |-> 0], body |-> [text |-> "not json"]],
      [name |-> [order |-> Some(101), timestamp |-> 0], body |-> json_dump(<<>>)],
      [name |-> [order |-> Some(101), timestamp |-> 0],
       body |-> json_dump([Report(0, 7, FALSE) EXCEPT !.flow_start = [text |-> "yesterday"]])],
      [name |-> [order |-> Some(101), timestamp |-> 1], body |-> json_dump(Report(1, 5, TRUE))],
      [name |-> [order |-> Some(102), timestamp |-> 0], body |-> json_dump(Report(0, 9, FALSE))],
      [name |-> [order |-> Some(102), timestamp |-> 2],
       body |-> json_dump([flow_start |-> isoformat(2), flow_end |-> isoformat(5),
                           total_duration |-> 3])],
      [name |-> [order |-> None, timestamp |-> 0], body |-> json_dump(Report(0, 4, TRUE))] }

RECURSIVE SeqsUpTo(_, _)
SeqsUpTo(S, n) ==
    IF n = 0 THEN { <<>> }
    ELSE SeqsUpTo(S, n - 1) \cup
         { Append(q, x) : q \in { r \in SeqsUpTo(S, n - 1) : Len(r) = n - 1 }, x \in S }

InitSummary ==
    /\ config = [b2b_order |-> "default", max_retries |-> 0, retry_delay |-> 0,
                 storefront_token |-> TRUE]
    /\ now = 0
    /\ timing = TimingTracker
    /\ pc = "new"
    /\ step = 0
    /\ poll = PollInit
    /\ locals = LocalsInit
    /\ result = None
    /\ raised = None
    /\ reports = <<>>
    /\ calls = <<>>
    /\ dir \in SeqsUpTo(Files, MaxFiles)
    /\ ts = TimingSummary
    /\ gen = GenInit
    /\ SingleMode

NextSummary ==
    \/ LoadTimingData
    \/ LoadFile
    \/ EndLoad
    \/ CalculateMetrics

SpecSummary == InitSummary /\ [][NextSummary]_vars

\* ------------------------------------- a run, then the aggregator on it
InitRoundTrip ==
    /\ Init
    /\ config.max_retries = 2
    /\ config.retry_delay = 1
    /\ config.storefront_token

NextRoundTrip ==
    \/ Next
    \/ LoadTimingData
    \/ LoadFile
    \/ EndLoad
    \/ CalculateMetrics

SpecRoundTrip == InitRoundTrip /\ [][NextRoundTrip]_vars

\* ------------------------------------------------------- the batch modes
\* main in sequential or concurrent mode, before process_orders_* is run.
\* The arguments the mode does not read keep their defaults.
InitBatch ==
    /\ config \in [b2b_order : {"default", "alt"}, max_retries : {2},
                   retry_delay : {1}, storefront_token : {TRUE}]
    /\ now = MaxClock
    /\ timing = TimingTracker
    /\ pc = "idle"
    /\ step = 0
    /\ poll = PollInit
    /\ locals = LocalsInit
    /\ result = None
    /\ raised = None
    /\ reports = <<>>
    /\ calls = <<>>
    /\ dir = <<>>
    /\ ts = TimingSummary
    /\ gen = GenInit
    /\ \/ batch \in [mode : {"sequential"}, num_orders : 0..MaxOrders,
                     delay_seconds : 0..MaxDelay, max_concurrent : {3}]
       \/ batch \in [mode : {"concurrent"}, num_orders : 0..MaxOrders,
                     delay_seconds : {5},
                     max_concurrent : {0, 1, MaxConcurrent}]
    /\ runner = RunnerInit
    /\ tasks = <<>>
    /\ semaphore = None
    /\ loop = LoopInit
    /\ events = <<>>
    /\ main = MainInit

NextBatch ==
    \/ Next
    \/ SeqStartRun
    \/ SeqCollect
    \/ SeqDelay
    \/ SeqReturn
    \/ CreateTasks
    \/ TaskStart
    \/ TaskFinish
    \/ GatherReturn

SpecBatch == InitBatch /\ [][NextBatch]_vars

\* main in sequential mode and main in concurrent mode, each on its own.
InitSequential == InitBatch /\ batch.mode = "sequential"

NextSequential ==
    \/ Next
    \/ SeqStartRun
    \/ SeqCollect
    \/ SeqDelay
    \/ SeqReturn

SpecSequential == InitSequential /\ [][NextSequential]_vars

InitConcurrent == InitBatch /\ batch.mode = "concurrent"

NextConcurrent ==
    \/ Next
    \/ CreateTasks
    \/ TaskStart
    \/ TaskFinish
    \/ GatherReturn

SpecConcurrent == InitConcurrent /\ [][NextConcurrent]_vars

\* Every step that can be taken is taken in the end: a call returns or
\* raises, a sleep ends, the event loop runs what is ready.
SpecConcurrentFair == SpecConcurrent /\ WF_vars(NextConcurrent)

\* ------------------------------------------------------ main, single mode
\* main in single mode, with a --max-retries that may be zero or negative.
InitMain ==
    /\ config \in [b2b_order : {"default", "alt"}, max_retries : {-1, 0, 2},
                   retry_delay : {1}, storefront_token : BOOLEAN]
    /\ now = 0
    /\ timing = TimingTracker
    /\ pc = "new"
    /\ step = 0
    /\ poll = PollInit
    /\ locals = LocalsInit
    /\ result = None
    /\ raised = None
    /\ reports = <<>>
    /\ calls = <<>>
    /\ dir = <<>>
    /\ ts = TimingSummary
    /\ gen = GenInit
    /\ SingleMode

NextMain ==
    \/ Next
    \/ MainReturn

SpecMain == InitMain /\ [][NextMain]_vars

\* ------------------------------------------ any caller of a TimingTracker
InitTracker ==
    /\ config = [b2b_order |-> "default", max_retries |-> 0, retry_delay |-> 0,
                 storefront_token |-> TRUE]
    /\ now = 0
    /\ timing = TimingTracker
    /\ pc = "idle"
    /\ step = 0
    /\ poll = PollInit
    /\ locals = LocalsInit
    /\ result = None
    /\ raised = None
    /\ reports = <<>>
    /\ calls = <<>>
    /\ dir = <<>>
    /\ ts = TimingSummary
    /\ gen = GenInit
    /\ SingleMode

NextTracker ==
    \/ CallStartFlow
    \/ CallStartStep
    \/ CallEndStep
    \/ CallEndFlow
    \/ CallSaveReport

SpecTracker == InitTracker /\ [][NextTracker]_vars

\* ---------------------------- a batch, and the aggregator on its reports
InitBatchSummary == InitSequential

NextBatchSummary ==
    \/ NextSequential
    \/ NextSummary

SpecBatchSummary == InitBatchSummary /\ [][NextBatchSummary]_vars

\* ------------------------------------------------ every writer of reports
\* The report files come from the runs of a batch, or from a caller of its
\* own that uses a TimingTracker outside process_single_order.
InitReports == InitBatch \/ InitTracker

\* The caller of its own: main is not in a batch and no run is under way.
OwnCaller == batch.mode = "single" /\ NextTracker

NextReports ==
    \/ NextBatch
    \/ OwnCaller

SpecReports == InitReports /\ [][NextReports]_vars

\* ------------------------------------------------------------------ claims
Failed == ~IsNone(result) /\ ~Val(result).success
Succeeded == ~IsNone(result) /\ Val(result).success

\* The names of the steps in the tracker's dict, in insertion order.
StartedNames == [i \in 1..Len(timing.steps) |-> timing.steps[i].name]

\* The names passed to start_step, in call order.
StartCalls ==
    LET starts == SelectSeq(calls, LAMBDA c : c[1] = "start")
    IN  [i \in 1..Len(starts) |-> starts[i][2]]

Prefix(n) == SubSeq(StepNames, 1, n)

\* The statuses of the poll's responses so far, all within S.
StatusesIn(S) == \A i \in 1..Len(poll.responses) : poll.responses[i].status \in S

PollEnded == ~IsNone(poll.result)

\* C1: process_single_order never lets an exception out.  Whatever a step
\* raises, the call ends with {success: False, error: <message>}, the steps
\* started are those up to the failing one, and nothing runs afterwards.
C1_NeverRaisesPastBoundary ==
    /\ [](/\ IsNone(raised)
          /\ pc # "raised"
          /\ Failed => /\ pc = "done"
                       /\ Val(result).error.msg # ""
                       /\ Len(StartCalls) = step)
    /\ [][~Failed]_vars

C1_Witness ==
    /\ Failed
    /\ StepNames[step] = "create_order"
    /\ Val(result).error = str(Exc("KeyError", "missing key"))
    /\ Len(timing.steps) = 5

\* C2: a run that ends with success = false has recorded the flow end and
\* written a report holding the steps executed before the failure.
C2_FailedRunPersistsReport ==
    Failed =>
        /\ ~IsNone(timing.end_time)
        /\ Len(reports) = 1
        /\ Len(reports[1].content.steps) = Len(timing.steps)

\* C3: a run that ends with success = true has written exactly one report
\* file, and the file was written after end_flow recorded the flow end and
\* after all ten steps were ended; no run writes two.
C3_SuccessWritesOneReport ==
    /\ Len(reports) <= 1
    /\ Succeeded =>
        /\ Len(reports) = 1
        /\ reports[1].content # <<>>
        /\ reports[1].content.flow_end = isoformat(Val(timing.end_time))
        /\ Len(reports[1].content.steps) = NumSteps
        /\ \A i \in 1..NumSteps : ~IsNone(reports[1].content.steps[i].end)

C3_Witness ==
    /\ Succeeded
    /\ Len(reports) = 1
    /\ reports[1].content.total_duration_seconds > ErpDelay

\* C4: a successful run returns the order id create_order gave and a
\* summary whose steps are the ten step names, each with its start, end and
\* duration, whichever ESL strategy ran.
C4_HappyPathResult ==
    Succeeded =>
        /\ ~IsNone(Val(result).order_id)
        /\ Val(result).order_id = locals.order_id
        /\ Val(Val(result).order_id) \in OrderIds
        /\ Val(result).summary # <<>>
        /\ LET st == Val(result).summary.steps
           IN  /\ [i \in 1..Len(st) |-> st[i].name] = StepNames
               /\ \A i \in 1..Len(st) :
                    /\ ~IsNone(st[i].end)
                    /\ ~IsNone(st[i].duration_seconds)
                    /\ Val(st[i].duration_seconds)
                         = Val(st[i].end).iso - st[i].start.iso

C4_Witness ==
    /\ Succeeded
    /\ config.b2b_order = "alt"
    /\ poll.sleeps = 1
    /\ Val(result).order_id = Some(102)

\* C5: in every state the steps started so far are a prefix of the fixed
\* sequence, each started once: none skipped, repeated or reordered.
C5_StepsArePrefix ==
    /\ StartedNames = Prefix(Len(timing.steps))
    /\ StartCalls = Prefix(Len(StartCalls))
    /\ Len(StartCalls) = Len(timing.steps)

C5_Witness ==
    /\ Failed
    /\ config.b2b_order = "alt"
    /\ Len(timing.steps) = 7
    /\ poll.requests = 2

\* C6: at most one step is open in every state, a step is started only
\* after every earlier step was ended, and an earlier step's end is not
\* later than a later step's start.
C6_OneOpenStepNoOverlap ==
    /\ Cardinality({i \in 1..Len(timing.steps) : IsNone(timing.steps[i].end)}) <= 1
    /\ \A i, j \in 1..Len(timing.steps) :
        i < j => /\ ~IsNone(timing.steps[i].end)
                 /\ Val(timing.steps[i].end) <= timing.steps[j].start
    /\ \A k \in 1..Len(calls) :
        calls[k][1] = "start" => (k = 1 \/ calls[k - 1][1] = "end")

C6_Witness ==
    /\ Len(timing.steps) = 8
    /\ IsNone(timing.steps[8].end)
    /\ timing.steps[8].start > Val(timing.steps[1].end)
    /\ Val(timing.steps[1].end) > timing.steps[1].start

\* C7: with max_retries = N >= 1 and 404 on every attempt, the poll makes
\* exactly N requests and N-1 sleeps (never one after the last attempt),
\* raises "not found after N attempts", and the run ends with success =
\* false carrying that error.
C7_All404Exhausts ==
    (config.max_retries >= 1 /\ StatusesIn({"404"})) =>
        /\ poll.requests <= config.max_retries
        /\ pc = "poll_sleep" => poll.requests < config.max_retries
        /\ pc \in {"poll", "poll_sleep"} => ~PollEnded
        /\ PollEnded =>
            /\ poll.requests = config.max_retries
            /\ Len(poll.responses) = config.max_retries
            /\ poll.sleeps = config.max_retries - 1
            /\ Val(poll.result) = Raised(NotFoundError(config.max_retries))
            /\ Failed
            /\ Val(result).error = str(NotFoundError(config.max_retries))
            /\ now >= timing.steps[7].start
                        + (config.max_retries - 1) * Seconds(config.retry_delay)

C7_Witness ==
    /\ config.max_retries = 3
    /\ config.retry_delay = 1
    /\ StatusesIn({"404"})
    /\ PollEnded
    /\ poll.requests = 3
    /\ poll.sleeps = 2
    /\ Failed

\* The poll's responses are k-1 times 404 and then one 200.
NotFoundThenFound ==
    /\ Len(poll.responses) >= 1
    /\ poll.responses[Len(poll.responses)].status = "200"
    /\ \A i \in 1..(Len(poll.responses) - 1) : poll.responses[i].status = "404"

\* C8: with 404 on attempts 1..k-1 and 200 on attempt k <= max_retries, the
\* poll makes exactly k requests and k-1 sleeps and returns the order of
\* attempt k; a 200 response is always the last request of the poll.
C8_FoundOnAttemptK ==
    /\ \A i \in 1..Len(poll.responses) :
        poll.responses[i].status = "200" =>
            /\ i = Len(poll.responses)
            /\ PollEnded
            /\ pc \notin {"poll", "poll_sleep"}
    /\ NotFoundThenFound =>
        LET k == Len(poll.responses)
        IN  /\ k <= config.max_retries
            /\ poll.requests = k
            /\ poll.sleeps = k - 1
            /\ Val(poll.result) = Returned(poll.responses[k].body)
            /\ ~IsNone(poll.responses[k].body)
            /\ locals.b2b_order = poll.responses[k].body
            /\ now >= timing.steps[7].start + (k - 1) * Seconds(config.retry_delay)

C8_Witness ==
    /\ NotFoundThenFound
    /\ Len(poll.responses) = 3
    /\ poll.sleeps = 2
    /\ locals.b2b_order = Some([id |-> 8])
    /\ Succeeded

\* C9: 404 responses and transport failures share one attempt counter.  The
\* requests never exceed max_retries; while only 404s and failures came,
\* every attempt but the last is followed by exactly one sleep; and when
\* the attempts are used up the poll raises the not-found error if the last
\* attempt got 404 and the last transport error otherwise.
C9_SharedAttemptCounter ==
    /\ poll.requests <= config.max_retries
    /\ poll.requests = Len(poll.responses)
    /\ (config.max_retries >= 1
            /\ StatusesIn({"404", "error_status", "request_failed"})) =>
        /\ pc = "poll" => (poll.sleeps = poll.requests /\ poll.attempt = poll.requests)
        /\ pc = "poll_sleep" =>
            /\ poll.sleeps = poll.requests - 1
            /\ poll.requests < config.max_retries
        /\ PollEnded =>
            LET last == poll.responses[Len(poll.responses)]
            IN  /\ poll.requests = config.max_retries
                /\ poll.sleeps = config.max_retries - 1
                /\ last.status = "404" =>
                    Val(poll.result) = Raised(NotFoundError(config.max_retries))
                /\ last.status = "error_status" => Val(poll.result) = Raised(HTTPError)
                /\ last.status = "request_failed" =>
                    Val(poll.result) = Raised(ConnectionError)
                /\ Failed
                /\ Val(result).error = str(Val(poll.result).exc)

C9_Witness ==
    /\ config.max_retries = 3
    /\ PollEnded
    /\ [i \in 1..Len(poll.responses) |-> poll.responses[i].status]
         = << "request_failed", "404", "error_status" >>
    /\ poll.sleeps = 2
    /\ Val(poll.result) = Raised(HTTPError)

\* C10: with max_retries >= 1, poll_b2b_order ends in one of three ways: it
\* returns the order of a 200 response, it raises "not found after N
\* attempts", or it re-raises a transport error; it never returns without
\* an order.
C10_PollNeverReturnsNone ==
    (config.max_retries >= 1 /\ PollEnded) =>
        \/ /\ Val(poll.result).kind = "return"
           /\ ~IsNone(Val(poll.result).value)
           /\ poll.responses[Len(poll.responses)].status = "200"
        \/ Val(poll.result) = Raised(NotFoundError(config.max_retries))
        \/ /\ Val(poll.result).kind = "raise"
           /\ IsRequestException(Val(poll.result).exc)

\* C16: a storefront verification without a matching record does not fail
\* the run: the storefront_verification step is ended, the flow goes on to
\* end_flow and save_report, and the run returns success = true with its
\* report written (unless writing the report file itself fails).
C16_VerificationMissIsSoft ==
    locals.edges = Some(FALSE) =>
        /\ Len(timing.steps) = NumSteps
        /\ ~IsNone(timing.steps[NumSteps].end)
        /\ locals.verification_result = Some(verification_result_of(FALSE))
        /\ pc \in {"end_flow", "save_report", "done"}
        /\ Failed => Val(result).error = str(Exc("OSError", "cannot write report"))
        /\ pc = "done" /\ ~Failed => (Succeeded /\ Len(reports) = 1)

C16_Witness ==
    /\ locals.edges = Some(FALSE)
    /\ Succeeded
    /\ Len(reports) = 1
    /\ ~Val(locals.verification_result).success

\* C17: when verification finds no record, the result returned by
\* process_single_order carries the verification payload (success = false)
\* in some field beside its own success, order_id and summary.
C17_ResultCarriesVerification ==
    (Succeeded /\ locals.edges = Some(FALSE)) =>
        \E k \in DOMAIN Val(result) \ {"success", "order_id", "summary"} :
            Val(result)[k] = Val(locals.verification_result)

\* C18: a report written by save_report and then loaded by TimingSummary
\* gives the aggregator the total duration and the step durations the writer
\* recorded, and the run's success.
C18_ReportRoundTrip ==
    (gen.pc = "returned" /\ Len(reports) = 1 /\ Len(gen.files) = 1) =>
        LET written == reports[1].content
            read == Val(gen.returned)
        IN  /\ read.total_orders = 1
            /\ read.successful_orders = 1
            /\ read.total_duration = written.total_duration_seconds
            /\ Len(read.step_metrics) = Len(written.steps)
            /\ \A i \in 1..Len(written.steps) :
                    /\ read.step_metrics[i].name = written.steps[i].name
                    /\ Some(read.step_metrics[i].total_duration) =
                            written.steps[i].duration_seconds

\* A file the loop loads without an exception: its name holds no "None",
\* it is JSON, and both its instants parse.
Clean(f) ==
    /\ ~IsNone(f.name.order)
    /\ ~IsNone(json_load(f.body))
    /\ ~IsNone(Instant(Val(json_load(f.body)), "flow_start"))
    /\ ~IsNone(Instant(Val(json_load(f.body)), "flow_end"))

\* A file json.load accepts and the name filter lets through.
Parsed(f) == ~IsNone(f.name.order) /\ ~IsNone(json_load(f.body))

GenerateReportEnded == gen.pc \in {"returned", "raised"}

\* C19: whatever files the directory holds, generate_report completes without
\* raising, and a file whose loading failed is counted nowhere: not in
\* timing_data, not in the totals, not in the batch rollup.
C19_MalformedFilesSkipped ==
    GenerateReportEnded =>
        LET clean == Len(SelectSeq(dir, Clean))
        IN  /\ gen.pc = "returned"
            /\ Len(ts.timing_data) = clean
            /\ ts.summary.total_orders = clean
            /\ gen.batch_info.order_count = clean

\* C20: the overall statistics range over every loaded report, failed or not:
\* average_duration is the sum of all total_duration values over their
\* number, min_duration and max_duration are taken over the same values, and
\* total_orders = successful_orders + failed_orders = the number of loaded
\* reports.
C20_StatisticsOverAllLoaded ==
    (GenerateReportEnded /\ \E i \in 1..Len(dir) : Parsed(dir[i])) =>
        LET loaded == SelectSeq(dir, Parsed)
            data(i) == Val(json_load(loaded[i].body))
            total(i) == get(data(i), "total_duration", 0)
            all == { total(i) : i \in 1..Len(loaded) }
            sum == SumSeq([i \in 1..Len(loaded) |-> total(i)])
            ok == { i \in 1..Len(loaded) : get(data(i), "success", TRUE) }
            s == ts.summary
        IN  /\ s.total_orders = Len(loaded)
            /\ s.successful_orders = Cardinality(ok)
            /\ s.failed_orders = Len(loaded) - Cardinality(ok)
            /\ s.total_orders = s.successful_orders + s.failed_orders
            /\ s.total_duration = sum
            /\ s.average_duration.num * Len(loaded) = s.average_duration.den * sum
            /\ ~IsNone(s.min_duration)
            /\ Val(s.min_duration) \in all /\ \A d \in all : Val(s.min_duration) <= d
            /\ s.max_duration \in all /\ \A d \in all : s.max_duration >= d

C20_Witness ==
    /\ gen.pc = "returned"
    /\ ts.summary.total_orders = 2
    /\ ts.summary.successful_orders = 1
    /\ ts.summary.failed_orders = 1
    /\ Val(gen.returned).average_duration = Div(14, 2)
    /\ Val(gen.returned).min_duration = Some(5)
    /\ Val(gen.returned).max_duration = 9

\* The runs between admission by the semaphore and their terminal state.
Holders == { k \in 1..Len(tasks) : tasks[k].state = "running" }

\* The result the run of order k ended with, None while it has not ended.
EndResult(k) ==
    IF \E p \in 1..Len(events) : events[p].ev = "end" /\ events[p].order = k
    THEN events[CHOOSE p \in 1..Len(events) :
                    events[p].ev = "end" /\ events[p].order = k].result
    ELSE None

Started(k) == \E p \in 1..Len(events) : events[p].ev = "start" /\ events[p].order = k

BatchReturned == runner.pc = "returned"

\* C11: in concurrent mode with limit C >= 1, never more than C runs hold a
\* permit, whatever the number of orders and however the runs end; the
\* semaphore's value is always C less the number of holders.
C11_AtMostCPermits ==
    (batch.mode = "concurrent" /\ batch.max_concurrent >= 1 /\ ~IsNone(semaphore)) =>
        /\ Cardinality(Holders) <= batch.max_concurrent
        /\ Val(semaphore).value >= 0
        /\ Val(semaphore).value = batch.max_concurrent - Cardinality(Holders)

C11_Witness ==
    /\ batch.mode = "concurrent"
    /\ batch.max_concurrent >= 1
    /\ batch.num_orders > batch.max_concurrent
    /\ Len(tasks) = 2
    /\ tasks[1].state = "done"
    /\ ~Val(tasks[1].result).success
    /\ tasks[2].state = "running"
    /\ pc = "call"

\* C12: with a limit of at least 1, process_orders_concurrent returns in the
\* end, for any number of orders; it returns only when every run is
\* terminal, and entry i of what it returns is the result of order i.
C12_ConcurrentReturnsAll ==
    /\ [](BatchReturned =>
            /\ \A k \in 1..Len(tasks) : tasks[k].state = "done"
            /\ Len(tasks) = batch.num_orders
            /\ Len(runner.results) = batch.num_orders
            /\ \A k \in 1..batch.num_orders :
                    Some(runner.results[k]) = EndResult(k))
    /\ ((batch.max_concurrent >= 1) ~> BatchReturned)

C12_Witness ==
    /\ BatchReturned
    /\ batch.mode = "concurrent"
    /\ batch.num_orders = 2
    /\ batch.max_concurrent = 1
    /\ runner.results[1].success
    /\ ~runner.results[2].success

\* C13: a run asleep in its poll backoff does not keep another run from
\* going on: with a limit of 2 or more and a task ready to run, the event
\* loop can start that task while the first run sleeps.
C13_SleepingRunLetsOthersRun ==
    (/\ batch.mode = "concurrent"
     /\ batch.max_concurrent >= 2
     /\ pc = "poll_sleep"
     /\ Len(loop.ready) > 0) => ENABLED TaskStart

\* The place of an event in a sequential batch: start k, end k, delay k, ...
EventKind(p) == << "start", "end", "delay" >>[((p - 1) % 3) + 1]
EventOrder(p) == ((p - 1) \div 3) + 1

\* C14: process_orders_sequential runs the orders one at a time in the order
\* 1..M: the events are start 1, end 1, delay, start 2, end 2, delay, ...,
\* start M, end M, so that run i+1 starts after run i ended and one delay
\* passed; M - 1 delays in all (none for M = 0), and the results list the
\* runs in that order.
C14_SequentialOneAtATime ==
    batch.mode = "sequential" =>
        LET M == batch.num_orders
            full == IF M = 0 THEN 0 ELSE 3 * M - 1
            delays == { p \in 1..Len(events) : events[p].ev = "delay" }
        IN  /\ Len(events) <= full
            /\ \A p \in 1..Len(events) :
                    /\ events[p].ev = EventKind(p)
                    /\ events[p].order = EventOrder(p)
            /\ runner.delays = Cardinality(delays)
            /\ pc # "idle" => /\ Len(events) > 0
                              /\ events[Len(events)].ev = "start"
                              /\ events[Len(events)].order = loop.current
            /\ BatchReturned =>
                    /\ Len(events) = full
                    /\ runner.delays = (IF M = 0 THEN 0 ELSE M - 1)
                    /\ Len(runner.results) = M
                    /\ \A k \in 1..M : Some(runner.results[k]) = EndResult(k)

C14_Witness ==
    /\ batch.mode = "sequential"
    /\ BatchReturned
    /\ batch.num_orders = 2
    /\ runner.delays = 1
    /\ ~runner.results[1].success
    /\ runner.results[2].success

\* C15: in both batch modes a failed run does not abort the batch: no
\* exception leaves a run, the batch can always go on until it returns
\* (given a limit of at least 1 in concurrent mode), and when it returns all
\* M runs were started and ended and the M results are theirs, one each.
C15_FailureDoesNotAbortBatch ==
    /\ IsNone(raised)
    /\ pc # "raised"
    /\ (~BatchReturned /\ (batch.mode = "sequential" \/ batch.max_concurrent >= 1))
            => ENABLED NextBatch
    /\ \A k \in 1..batch.num_orders :
            (Started(k) /\ k > 1) => ~IsNone(EndResult(k - 1))
    /\ BatchReturned =>
            /\ Len(runner.results) = batch.num_orders
            /\ \A k \in 1..batch.num_orders :
                    /\ Started(k)
                    /\ Some(runner.results[k]) = EndResult(k)

C15_Witness ==
    /\ BatchReturned
    /\ batch.num_orders = 2
    /\ ~runner.results[1].success
    /\ runner.results[2].success
    /\ batch.mode = "concurrent"

\* C21: in single mode a failed run makes the driver end in an error: when
\* main has ended after a run with success = false, its exit status is not 0.
C21_FailedSingleRunExitsNonZero ==
    (main.pc = "exited" /\ Failed) => Val(main.exit_code) # 0

\* How many events of kind ev the log holds for order k.
EventCount(ev, k) ==
    Cardinality({ p \in 1..Len(events) : events[p].ev = ev /\ events[p].order = k })

\* C22: the permit is released when a run finishes, failed or not: every
\* order acquires at most once and releases at most once, a release follows
\* its acquire, the semaphore's value is the limit less the acquires not yet
\* released, a finished run holds no permit, and when
\* process_orders_concurrent returns all permits are back.
C22_PermitReleased ==
    (batch.mode = "concurrent" /\ ~IsNone(semaphore)) =>
        LET acquired == { p \in 1..Len(events) : events[p].ev = "start" }
            released == { p \in 1..Len(events) : events[p].ev = "end" }
        IN  /\ Val(semaphore).value =
                    batch.max_concurrent - (Cardinality(acquired) - Cardinality(released))
            /\ \A k \in 1..Len(tasks) :
                    /\ EventCount("start", k) <= 1
                    /\ EventCount("end", k) <= EventCount("start", k)
                    /\ tasks[k].state = "running" <=>
                            (EventCount("start", k) = 1 /\ EventCount("end", k) = 0)
                    /\ tasks[k].state = "done" =>
                            (EventCount("start", k) = 1 /\ EventCount("end", k) = 1)
            /\ BatchReturned =>
                    /\ Val(semaphore).value = batch.max_concurrent
                    /\ Len(Val(semaphore).waiters) = 0

C22_Witness ==
    /\ BatchReturned
    /\ batch.mode = "concurrent"
    /\ batch.num_orders = 2
    /\ batch.max_concurrent = 1
    /\ ~runner.results[1].success
    /\ runner.results[2].success
    /\ Val(semaphore).value = 1

\* C29: with a limit of 0 and at least one order, no run is admitted, no
\* step of any run is started, and process_orders_concurrent never returns:
\* every task ends up waiting for a permit and nothing can happen any more.
C29_ZeroLimitNeverAdmits ==
    (batch.mode = "concurrent" /\ batch.max_concurrent = 0 /\ batch.num_orders >= 1) =>
        /\ ~BatchReturned
        /\ events = <<>>
        /\ pc = "idle"
        /\ Len(timing.steps) = 0
        /\ reports = <<>>
        /\ \A k \in 1..Len(tasks) : tasks[k].state \in {"pending", "waiting"}
        /\ (runner.pc = "gather" /\ Len(loop.ready) = 0) =>
                /\ \A k \in 1..Len(tasks) : tasks[k].state = "waiting"
                /\ Len(Val(semaphore).waiters) = batch.num_orders
                /\ ~ENABLED NextConcurrent

C29_Witness ==
    /\ batch.mode = "concurrent"
    /\ batch.max_concurrent = 0
    /\ batch.num_orders = 2
    /\ Len(tasks) = 2
    /\ tasks[1].state = "waiting"
    /\ tasks[2].state = "waiting"
    /\ runner.pc = "gather"

\* The steps of the tracker that have a start and no end.
OpenSteps == { i \in 1..Len(timing.steps) : IsNone(timing.steps[i].end) }

LastCall == IF Len(calls) = 0 THEN << "", "" >> ELSE calls[Len(calls)]

\* C23: the tracker keeps at most one step open by itself: whatever
\* start_step / end_step calls are made, start_step on a tracker with an
\* open step closes that step, so that after every call at most one step
\* has a start and no end.
C23_TrackerClosesOpenStep ==
    /\ Cardinality(OpenSteps) <= 1
    /\ (LastCall[1] = "start" /\ Len(timing.steps) > 0) =>
            \A i \in 1..Len(timing.steps) :
                timing.steps[i].name # LastCall[2] => ~IsNone(timing.steps[i].end)

\* C24: after end_flow the flow end is recorded, no step is left without an
\* end, and the report holding that flow end has been written.
C24_EndFlowClosesAndSaves ==
    LastCall[1] = "end_flow" =>
        /\ timing.end_time = Some(now)
        /\ OpenSteps = {}
        /\ ~IsNone(timing.start_time) =>
                \E p \in 1..Len(reports) :
                    reports[p].content.flow_end = isoformat(now)

\* C25: the reports of the runs of one batch lie in one directory, and the
\* file of a batch run is named after the run's order number 1..M.
C25_BatchReportsKeyedByOrderNumber ==
    batch.mode \in {"sequential", "concurrent"} =>
        /\ \A p, q \in 1..Len(reports) : reports[p].date_dir = reports[q].date_dir
        /\ \A p \in 1..Len(reports) :
                reports[p].order \in { Some(k) : k \in 1..batch.num_orders }

\* The place of create_order in the sequence of steps.
CreateOrderStep == CHOOSE i \in 1..NumSteps : StepNames[i] = "create_order"

\* C26: within a run order_id is absent until create_order has succeeded,
\* is then the identifier create_order returned, and never changes: every
\* later step finds that identifier in order_id, the tracker holds it, and
\* the result and the report file carry it.
C26_OrderIdAssignedOnce ==
    /\ [](/\ step <= CreateOrderStep => IsNone(locals.order_id)
          /\ step > CreateOrderStep =>
                (~IsNone(locals.order_id) /\ Val(locals.order_id) \in OrderIds)
          /\ timing.order_id = locals.order_id
          /\ Succeeded => Val(result).order_id = locals.order_id
          /\ \A p \in 1..Len(reports) : reports[p].order = locals.order_id)
    /\ [][~IsNone(locals.order_id) => locals'.order_id = locals.order_id]_vars

C26_Witness ==
    /\ Succeeded
    /\ locals.order_id = Some(102)
    /\ Len(reports) = 1
    /\ reports[1].order = Some(102)

\* The place of a step in the sequence of steps.
StepNumber(name) == CHOOSE i \in 1..NumSteps : StepNames[i] = name

\* C27: erp_processing always succeeds: a run that started erp_processing
\* (its esl_retrieval ended without an error) and has ended has an ended
\* erp_processing step and an ERP response with a PO number and a status
\* marker.
C27_ErpAlwaysSucceeds ==
    (pc = "done" /\ Len(timing.steps) >= StepNumber("erp_processing")) =>
        /\ ~IsNone(timing.steps[StepNumber("erp_processing")].end)
        /\ ~IsNone(locals.erp_response)
        /\ DOMAIN Val(locals.erp_response) = {"poNumber", "extraField1"}

\* C28: the storefront token is optional: a run without it does not end
\* with success = false on account of the missing token.
C28_MissingTokenIsNotFatal ==
    (~config.storefront_token /\ Failed) =>
        Val(result).error #
            str(Exc("ValueError", "B2B_STOREFRONT_TOKEN environment variable is not set"))

ThroughRun == batch.mode \in {"sequential", "concurrent"}

\* A report of a run that completed: order id, both flow instants, and the
\* ten steps in order, each with an end and a duration.
CompleteReport(r) ==
    /\ ~IsNone(r.order)
    /\ {"flow_start", "flow_end"} \subseteq DOMAIN r.content
    /\ r.content.order_id = r.order
    /\ Len(r.content.steps) = NumSteps
    /\ \A i \in 1..NumSteps :
            /\ r.content.steps[i].name = StepNames[i]
            /\ ~IsNone(r.content.steps[i].end)
            /\ ~IsNone(r.content.steps[i].duration_seconds)

\* The orders of the batch whose run ended with success = true.
SucceededOrders ==
    { k \in 1..batch.num_orders : ~IsNone(EndResult(k)) /\ Val(EndResult(k)).success }

\* C31: every report file written through process_single_order belongs to
\* a run that completed all ten steps: its order id is not None, flow_start
\* and flow_end are set, and each of the ten steps has an end and a
\* duration; there are as many files as runs that succeeded.  save_report
\* itself, whoever calls it, writes nothing while the flow start or the
\* flow end is missing, and what it writes holds both.
C31_ReportsOnlyOfCompleteRuns ==
    /\ [](/\ \A p \in 1..Len(reports) :
                {"flow_start", "flow_end"} \subseteq DOMAIN reports[p].content
          /\ ThroughRun =>
                /\ \A p \in 1..Len(reports) : CompleteReport(reports[p])
                /\ Len(reports) = Cardinality(SucceededOrders)
                                    + (IF pc = "done" /\ Succeeded THEN 1 ELSE 0))
    /\ [][/\ (IsNone(timing.start_time) \/ IsNone(timing.end_time))
                => reports' = reports
          /\ reports' # reports
                => (ThroughRun => (step = NumSteps /\ OpenSteps = {}))]_vars

C31_Witness ==
    /\ batch.mode = "sequential"
    /\ BatchReturned
    /\ batch.num_orders = 2
    /\ ~runner.results[1].success
    /\ runner.results[2].success
    /\ Len(reports) = 1
    /\ CompleteReport(reports[1])

\* load_timing_data has gone through the directory.
Loaded == gen.pc \in {"calculate", "returned", "raised"}

\* The runs of the batch that ended with success = false.
FailedRuns == { k \in 1..Len(runner.results) : ~runner.results[k].success }

\* C32: the orchestrator never writes a success key, and the aggregator
\* takes a report without one as successful.  Over a directory holding only
\* reports the orchestrator wrote, the aggregator therefore ends with
\* failed_orders = 0 and successful_orders = total_orders, overall and in
\* the batch rollup, and the runs that failed appear nowhere in its counts.
C32_AggregatorSeesNoFailure ==
    /\ \A p \in 1..Len(reports) :
            /\ "success" \notin DOMAIN reports[p].content
            /\ success_of(Val(json_load(FileOf(reports[p]).body)))
    /\ gen.batch_info.failed_orders = 0
    /\ gen.batch_info.successful_orders = gen.batch_info.order_count
    /\ gen.pc # "raised"
    /\ Loaded =>
            /\ Len(ts.timing_data) = Len(gen.files)
            /\ Len(ts.summary.batch_metrics) = (IF Len(gen.files) > 0 THEN 1 ELSE 0)
            /\ \A b \in 1..Len(ts.summary.batch_metrics) :
                    /\ ts.summary.batch_metrics[b].failed_orders = 0
                    /\ ts.summary.batch_metrics[b].successful_orders = Len(gen.files)
                    /\ ts.summary.batch_metrics[b].order_count = Len(gen.files)
    /\ gen.pc = "returned" =>
            /\ Val(gen.returned).failed_orders = 0
            /\ Val(gen.returned).successful_orders = Val(gen.returned).total_orders
            /\ Val(gen.returned).total_orders = Len(gen.files)
            /\ BatchReturned =>
                    Val(gen.returned).total_orders + Cardinality(FailedRuns)
                        = batch.num_orders

C32_Witness ==
    /\ gen.pc = "returned"
    /\ BatchReturned
    /\ batch.num_orders = 2
    /\ FailedRuns = {1}
    /\ Val(gen.returned).total_orders = 1
    /\ Val(gen.returned).successful_orders = 1
    /\ Val(gen.returned).failed_orders = 0
    /\ Val(gen.returned).batch_metrics[1].failed_orders = 0

====
